---- MODULE Spec2Model ----
(***************************************************************************)
(* A model of the SeisComP inventory tools:                                *)
(*   - seiscomp-inventory-analyzer.py: UnifiedSeisCompAnalyzer, which      *)
(*     indexes the equipment of an inventory document, walks               *)
(*     network/station/sensorLocation/stream, builds one record per        *)
(*     stream and exports the records as a table;                          *)
(*   - seiscomp-inventory-editor-gui.py: SeisCompInventoryEditor, which    *)
(*     loads a document, commits form fields to the selected node and      *)
(*     saves the document behind a backup file.                            *)
(*                                                                         *)
(* A document is the sequence of its structural elements below the         *)
(* Inventory element, in document order.  Each element carries the index   *)
(* of its parent (0 is the Inventory element), its attributes, and the     *)
(* sequence of its text-bearing child elements ("kids").  Python's None    *)
(* is the value None below; an element without text has text None, as in   *)
(* ElementTree.                                                            *)
(***************************************************************************)
EXTENDS Integers, Sequences, FiniteSets, TLC

VARIABLES
    \* ---- UnifiedSeisCompAnalyzer and its main() ----
    inventory_file,     \* the document parse_inventory was last called with
    sensor_lookup,      \* publicID -> sensor_info
    datalogger_lookup,  \* publicID -> datalogger_info
    response_lookup,    \* publicID -> response info
    paz_lookup,         \* publicID -> responsePAZ info
    unified_data,       \* the list of stream_data dictionaries
    stderr,             \* the messages printed to sys.stderr, in order
    csv,                \* the table written by export_to_csv, if any
    pc,                 \* the position of main(): "start", "parsed", "exported"
    parses,             \* the number of parse_inventory calls so far
    \* ---- SeisCompInventoryEditor and the files it reads and writes ----
    disk,               \* file name -> the file's content
    current_file,       \* self.current_file
    tree,               \* self.tree / self.root: the loaded document
    unsaved_changes,    \* self.unsaved_changes
    current_element,    \* self.current_element, once an item was selected
    form,               \* the text of every QLineEdit of the four tabs
    uncaught,           \* the exception that left the last handler, "" if none
    running,            \* FALSE once the application was aborted
    last,               \* the last handler that ran, and the tree before it
    steps               \* the number of user actions so far

avars == <<inventory_file, sensor_lookup, datalogger_lookup, response_lookup,
           paz_lookup, unified_data, stderr, csv, pc, parses>>

evars == <<disk, current_file, tree, unsaved_changes, current_element, form,
           uncaught, running, last, steps>>

vars == <<avars, evars>>

-----------------------------------------------------------------------------
(* Python values and ElementTree elements *)

\* Python's None.  No attribute value or element text of the model is this string.
None == "<None>"

\* bool(v) of a value that is None or a str.
Truthy(v) == v # None /\ v # ""

\* a or b
PyOr(a, b) == IF Truthy(a) THEN a ELSE b

\* The attributes the two programs read or write.
AttrNames == {"code", "name", "publicID", "sensor", "datalogger", "response"}

NoAttr == [a \in AttrNames |-> None]

Elem(tag, parent, attr, kids) ==
    [tag |-> tag, parent |-> parent, attr |-> attr, kids |-> kids]

Kid(tag, text) == [tag |-> tag, text |-> text]

\* element.get(name, default)
Get(node, name, default) ==
    IF node.attr[name] = None THEN default ELSE node.attr[name]

\* The index of the first kid with the tag, 0 when there is none: element.find.
RECURSIVE FindFrom(_, _, _)
FindFrom(kids, tag, i) ==
    IF i > Len(kids) THEN 0
    ELSE IF kids[i].tag = tag THEN i
    ELSE FindFrom(kids, tag, i + 1)

Find(node, tag) == FindFrom(node.kids, tag, 1)

\* The analyzer's _get_element_text: None when the child is absent, and the
\* child's text (None for an empty element) when it is present.
GetElementTextA(node, tag) ==
    IF Find(node, tag) = 0 THEN None ELSE node.kids[Find(node, tag)].text

\* Whether element i is a proper ancestor of element j (0 is the Inventory).
RECURSIVE IsAncestor(_, _, _)
IsAncestor(nodes, i, j) ==
    /\ j # 0
    /\ \/ nodes[j].parent = i
       \/ IsAncestor(nodes, i, nodes[j].parent)

Indices(nodes) == [k \in 1..Len(nodes) |-> k]

\* element.findall('.//sc3:tag'): every descendant with the tag, in document order.
FindAllDesc(nodes, i, tag) ==
    SelectSeq(Indices(nodes),
              LAMBDA j : nodes[j].tag = tag /\ IsAncestor(nodes, i, j))

\* element.findall('sc3:tag'): the direct children with the tag, in document order.
FindAllChild(nodes, i, tag) ==
    SelectSeq(Indices(nodes),
              LAMBDA j : nodes[j].tag = tag /\ nodes[j].parent = i)

\* dict.update: the entries of b override those of a.
Update(a, b) == b @@ a

\* The empty dictionary.
EmptyDict == [k \in {} |-> None]

\* d[k] = v
Store(d, k, v) == (k :> v) @@ d

-----------------------------------------------------------------------------
(* UnifiedSeisCompAnalyzer._build_lookup_tables *)

SensorInfo(node) ==
    [sensor_name |-> Get(node, "name", ""),
     sensor_description |-> GetElementTextA(node, "description"),
     sensor_manufacturer |-> GetElementTextA(node, "manufacturer"),
     sensor_model |-> GetElementTextA(node, "model"),
     sensor_type |-> GetElementTextA(node, "type"),
     sensor_unit |-> GetElementTextA(node, "unit"),
     sensor_response |-> Get(node, "response", ""),
     sensor_remark |-> GetElementTextA(node, "remark"),
     sensor_serial_number_equipment |-> GetElementTextA(node, "serialNumber")]

DecimationInfo(node) ==
    [sampleRateNumerator |-> GetElementTextA(node, "sampleRateNumerator"),
     sampleRateDenominator |-> GetElementTextA(node, "sampleRateDenominator"),
     analogueFilterChain |-> GetElementTextA(node, "analogueFilterChain"),
     digitalFilterChain |-> GetElementTextA(node, "digitalFilterChain")]

\* The decimations list of datalogger i: one entry per <decimation> descendant,
\* in document order.
Decimations(nodes, i) ==
    [k \in 1..Len(FindAllDesc(nodes, i, "decimation")) |->
        DecimationInfo(nodes[FindAllDesc(nodes, i, "decimation")[k]])]

DataloggerInfo(nodes, i) ==
    [datalogger_name |-> Get(nodes[i], "name", ""),
     datalogger_description |-> GetElementTextA(nodes[i], "description"),
     datalogger_manufacturer |-> GetElementTextA(nodes[i], "manufacturer"),
     datalogger_model |-> GetElementTextA(nodes[i], "model"),
     datalogger_type |-> GetElementTextA(nodes[i], "type"),
     datalogger_remark |-> GetElementTextA(nodes[i], "remark"),
     datalogger_serial_number_equipment |-> GetElementTextA(nodes[i], "serialNumber"),
     decimations |-> Decimations(nodes, i)]

ResponseInfo(node) ==
    [response_name |-> Get(node, "name", ""),
     response_gain |-> GetElementTextA(node, "gain"),
     response_frequency |-> GetElementTextA(node, "frequency"),
     response_gainFrequency |-> GetElementTextA(node, "gainFrequency")]

PazInfo(node) ==
    [paz_type |-> GetElementTextA(node, "type"),
     paz_gain |-> GetElementTextA(node, "gain"),
     paz_gainFrequency |-> GetElementTextA(node, "gainFrequency"),
     paz_normalizationFactor |-> GetElementTextA(node, "normalizationFactor"),
     paz_normalizationFrequency |-> GetElementTextA(node, "normalizationFrequency"),
     paz_numberOfPoles |-> GetElementTextA(node, "numberOfPoles"),
     paz_numberOfZeros |-> GetElementTextA(node, "numberOfZeros")]

\* The loop "for sensor in ...: self.sensor_lookup[sensor_id] = sensor_info": the
\* entries are stored in document order into the dictionary the analyzer already
\* holds, a later element with the same publicID (None when the attribute is
\* missing) overwriting an earlier one.
RECURSIVE BuildSensorLookup(_, _, _)
BuildSensorLookup(lookup, nodes, found) ==
    IF found = <<>> THEN lookup
    ELSE BuildSensorLookup(
            Store(lookup, nodes[Head(found)].attr["publicID"], SensorInfo(nodes[Head(found)])),
            nodes, Tail(found))

RECURSIVE BuildDataloggerLookup(_, _, _)
BuildDataloggerLookup(lookup, nodes, found) ==
    IF found = <<>> THEN lookup
    ELSE BuildDataloggerLookup(
            Store(lookup, nodes[Head(found)].attr["publicID"], DataloggerInfo(nodes, Head(found))),
            nodes, Tail(found))

RECURSIVE BuildResponseLookup(_, _, _)
BuildResponseLookup(lookup, nodes, found) ==
    IF found = <<>> THEN lookup
    ELSE BuildResponseLookup(
            Store(lookup, nodes[Head(found)].attr["publicID"], ResponseInfo(nodes[Head(found)])),
            nodes, Tail(found))

RECURSIVE BuildPazLookup(_, _, _)
BuildPazLookup(lookup, nodes, found) ==
    IF found = <<>> THEN lookup
    ELSE BuildPazLookup(
            Store(lookup, nodes[Head(found)].attr["publicID"], PazInfo(nodes[Head(found)])),
            nodes, Tail(found))

-----------------------------------------------------------------------------
(* json.dumps and json.loads of the decimations list *)

\* A JSON text is the sequence of its tokens.  A string token carries the
\* string; null is a token of its own, so that the string "null" and None
\* have different texts.
Tok(t, v) == [t |-> t, v |-> v]

\* A variant of json.dumps that writes None as the string "null".
DumpValueNoneAsString(v) == Tok("string", IF v = None THEN "null" ELSE v)

\* json.dumps of a value that is None or a str.
DumpValue(v) == IF v = None THEN Tok("null", "") ELSE Tok("string", v)

\* The keys of a decimation_info dictionary, in insertion order.
DecimationKeys ==
    <<"sampleRateNumerator", "sampleRateDenominator",
      "analogueFilterChain", "digitalFilterChain">>

RECURSIVE DumpMembers(_, _, _)
DumpMembers(d, keys, k) ==
    IF k > Len(keys) THEN <<>>
    ELSE (IF k > 1 THEN <<Tok(",", "")>> ELSE <<>>)
         \o <<Tok("string", keys[k]), Tok(":", ""), DumpValue(d[keys[k]])>>
         \o DumpMembers(d, keys, k + 1)

DumpDict(d) == <<Tok("{", "")>> \o DumpMembers(d, DecimationKeys, 1) \o <<Tok("}", "")>>

RECURSIVE DumpItems(_, _)
DumpItems(list, k) ==
    IF k > Len(list) THEN <<>>
    ELSE (IF k > 1 THEN <<Tok(",", "")>> ELSE <<>>)
         \o DumpDict(list[k]) \o DumpItems(list, k + 1)

\* json.dumps(value) of a list of decimation_info dictionaries.
JsonDumps(list) == <<Tok("[", "")>> \o DumpItems(list, 1) \o <<Tok("]", "")>>

\* json.loads of a value token.
LoadValue(tok) == IF tok.t = "null" THEN None ELSE tok.v

\* json.loads, reading the tokens from position p: the list read so far is
\* list, the dictionary being read is d (its members so far).
RECURSIVE LoadFrom(_, _, _, _)
LoadFrom(toks, p, list, d) ==
    IF p > Len(toks) THEN list
    ELSE IF toks[p].t \in {"[", ",", "]"} THEN LoadFrom(toks, p + 1, list, d)
    ELSE IF toks[p].t = "{" THEN LoadFrom(toks, p + 1, list, EmptyDict)
    ELSE IF toks[p].t = "}" THEN LoadFrom(toks, p + 1, Append(list, d), EmptyDict)
    ELSE \* a member: string, ":", value
         LoadFrom(toks, p + 3, list, Store(d, toks[p].v, LoadValue(toks[p + 2])))

JsonLoads(toks) == LoadFrom(toks, 1, <<>>, EmptyDict)

-----------------------------------------------------------------------------
(* UnifiedSeisCompAnalyzer._process_networks .. _process_stream *)

RECURSIVE Flatten(_)
Flatten(ss) == IF ss = <<>> THEN <<>> ELSE Head(ss) \o Flatten(Tail(ss))

\* _process_location's loop: the direct <stream> children of location l.
LocationVisits(nodes, n, s, l) ==
    [k \in 1..Len(FindAllChild(nodes, l, "stream")) |->
        <<n, s, l, FindAllChild(nodes, l, "stream")[k]>>]

\* A variant of _process_station that handles the first <sensorLocation> only
\* (station.find in place of station.findall).
StationVisitsFirstOnly(nodes, n, s) ==
    IF FindAllDesc(nodes, s, "sensorLocation") = <<>> THEN <<>>
    ELSE LocationVisits(nodes, n, s, FindAllDesc(nodes, s, "sensorLocation")[1])

\* _process_station's loop: every <sensorLocation> descendant of station s.
StationVisits(nodes, n, s) ==
    Flatten([k \in 1..Len(FindAllDesc(nodes, s, "sensorLocation")) |->
                LocationVisits(nodes, n, s, FindAllDesc(nodes, s, "sensorLocation")[k])])

\* _process_networks' inner loop: every <station> descendant of network n.
NetworkVisits(nodes, n) ==
    Flatten([k \in 1..Len(FindAllDesc(nodes, n, "station")) |->
                StationVisits(nodes, n, FindAllDesc(nodes, n, "station")[k])])

\* _process_networks: the calls of _process_stream, in order, each as
\* <<network, station, location, stream>>.
Visits(nodes) ==
    Flatten([k \in 1..Len(FindAllDesc(nodes, 0, "network")) |->
                NetworkVisits(nodes, FindAllDesc(nodes, 0, "network")[k])])

\* The fields carried down from the network, the station and the location.
Context(nodes, v) ==
    [network |-> Get(nodes[v[1]], "code", ""),
     network_start |-> GetElementTextA(nodes[v[1]], "start"),
     network_end |-> GetElementTextA(nodes[v[1]], "end"),
     station |-> Get(nodes[v[2]], "code", ""),
     station_start |-> GetElementTextA(nodes[v[2]], "start"),
     station_end |-> GetElementTextA(nodes[v[2]], "end"),
     location |-> Get(nodes[v[3]], "code", ""),
     latitude |-> GetElementTextA(nodes[v[3]], "latitude"),
     longitude |-> GetElementTextA(nodes[v[3]], "longitude"),
     elevation |-> GetElementTextA(nodes[v[3]], "elevation")]

\* The stream's own fields: each the text of one child element of the stream.
StreamTagOf ==
    [stream_start |-> "start", stream_end |-> "end", depth |-> "depth",
     azimuth |-> "azimuth", dip |-> "dip", gain |-> "gain",
     gainFrequency |-> "gainFrequency", gainUnit |-> "gainUnit",
     format |-> "format", flags |-> "flags", restricted |-> "restricted",
     shared |-> "shared",
     sensor_serial_number_stream |-> "sensorSerialNumber",
     datalogger_serial_number_stream |-> "dataloggerSerialNumber",
     sensorChannel |-> "sensorChannel", dataloggerChannel |-> "dataloggerChannel",
     clockSerialNumber |-> "clockSerialNumber",
     sampleRateNumerator |-> "sampleRateNumerator",
     sampleRateDenominator |-> "sampleRateDenominator",
     clockDrift |-> "clockDrift", clockModel |-> "clockModel"]

\* stream_data as first built (the "Base stream information" dictionary).
BaseStreamData(nodes, v) ==
    Context(nodes, v)
    @@ [channel |-> Get(nodes[v[4]], "code", "")]
    @@ [k \in DOMAIN StreamTagOf |-> GetElementTextA(nodes[v[4]], StreamTagOf[k])]

\* "if sensor_ref in self.sensor_lookup: stream_data.update(...)"; sensor_ref is
\* None when the stream has no sensor attribute.
AddSensor(data, lookup, ref) ==
    IF ref \in DOMAIN lookup THEN Update(data, lookup[ref]) ELSE data

\* The datalogger loop: every key but 'decimations' is copied, and a non-empty
\* decimations list is attached as its JSON text.
AddDatalogger(data, lookup, ref) ==
    IF ref \notin DOMAIN lookup THEN data
    ELSE LET info == lookup[ref]
             copied == [k \in DOMAIN info \ {"decimations"} |-> info[k]]
         IN  IF info["decimations"] # <<>>
             THEN Store(Update(data, copied), "decimation_info",
                        JsonDumps(info["decimations"]))
             ELSE Update(data, copied)

\* '; '.join(comments)
RECURSIVE Join(_)
Join(texts) ==
    IF Len(texts) = 1 THEN texts[1]
    ELSE texts[1] \o "; " \o Join(Tail(texts))

\* The non-empty texts of the <comment> descendants of stream t.
CommentTexts(nodes, t) ==
    LET found == FindAllDesc(nodes, t, "comment")
        texts == [k \in 1..Len(found) |-> GetElementTextA(nodes[found[k]], "text")]
    IN  SelectSeq(texts, Truthy)

AddComments(data, nodes, t) ==
    IF CommentTexts(nodes, t) # <<>>
    THEN Store(data, "stream_comments", Join(CommentTexts(nodes, t)))
    ELSE data

\* The dictionary _process_stream appends for visit v.
StreamRecord(nodes, v, sensors, dataloggers) ==
    AddComments(
        AddDatalogger(
            AddSensor(BaseStreamData(nodes, v), sensors, nodes[v[4]].attr["sensor"]),
            dataloggers, nodes[v[4]].attr["datalogger"]),
        nodes, v[4])

\* A variant of _process_stream that converts the depth to a number, and so
\* raises ValueError for a depth that is none.
StreamRaisesIfDepthParsed(nodes, t) ==
    GetElementTextA(nodes[t], "depth") \notin {None, "0", "10"}

\* Whether the body of _process_stream's try raises for stream t.  The body
\* only reads attributes and element texts, which are None or str, tests
\* dictionary membership, and json.dumps a list of such dictionaries: no
\* text makes any of these raise, and no text is converted to a number.
StreamRaises(nodes, t) == FALSE

\* _process_networks: unified_data and sys.stderr after the visits from k on.
RECURSIVE ProcessVisits(_, _, _, _, _)
ProcessVisits(st, nodes, visits, sensors, dataloggers) ==
    IF visits = <<>> THEN st
    ELSE ProcessVisits(
            IF StreamRaises(nodes, Head(visits)[4])
            THEN [st EXCEPT !.err = Append(@, "Error processing stream")]
            ELSE [st EXCEPT !.data =
                    Append(@, StreamRecord(nodes, Head(visits), sensors, dataloggers))],
            nodes, Tail(visits), sensors, dataloggers)

-----------------------------------------------------------------------------
(* UnifiedSeisCompAnalyzer.export_to_csv *)

\* The columns of pd.DataFrame(self.unified_data): every key of any record.
Columns(data) == UNION {DOMAIN data[k] : k \in 1..Len(data)}

\* A cell after df.replace({None: '', '': ''}): a key the record lacks (NaN)
\* and None both become ''.  A decimation_info cell is a JSON text, never None.
Cell(rec, c) ==
    IF c \notin DOMAIN rec THEN ""
    ELSE IF c = "decimation_info" THEN rec[c]
    ELSE IF rec[c] = None THEN "" ELSE rec[c]

\* The four intermediate columns that df.drop(columns=[...]) names.
SerialColumns ==
    {"sensor_serial_number_stream", "sensor_serial_number_equipment",
     "datalogger_serial_number_stream", "datalogger_serial_number_equipment"}

\* x['..._equipment'] in the two lambdas, and df.drop, raise KeyError when the
\* frame has no such column, that is when no record carries the key.
ExportRaises(data) == ~(SerialColumns \subseteq Columns(data))

\* One row of the frame that df.to_csv writes.
Row(rec, cols) ==
    [c \in (cols \ SerialColumns) \cup {"sensor_serial_number", "datalogger_serial_number"} |->
        IF c = "sensor_serial_number"
        THEN PyOr(Cell(rec, "sensor_serial_number_stream"),
                  Cell(rec, "sensor_serial_number_equipment"))
        ELSE IF c = "datalogger_serial_number"
        THEN PyOr(Cell(rec, "datalogger_serial_number_stream"),
                  Cell(rec, "datalogger_serial_number_equipment"))
        ELSE Cell(rec, c)]

Table(data) == [k \in 1..Len(data) |-> Row(data[k], Columns(data))]

NoCsv == [exists |-> FALSE, rows |-> <<>>]

-----------------------------------------------------------------------------
(* The documents given to the analyzer *)

\* A file: whether it is well-formed XML, its root tag, whether the root has
\* an Inventory child, and the elements below the Inventory.
File(wf, root, inv, nodes) == [wf |-> wf, root |-> root, inv |-> inv, nodes |-> nodes]

Doc(nodes) == File(TRUE, "seiscomp", TRUE, nodes)

Min(a, b) == IF a < b THEN a ELSE b

HierTag == <<"network", "station", "sensorLocation", "stream">>

\* The longest hierarchy document (elements) and the longest free-form one.
MaxHier == 8
MaxAny == 3

\* The nesting depths of n elements in document order: the first is a child
\* of the Inventory, and each next one is at most one level deeper.
RECURSIVE DepthSeqs(_)
DepthSeqs(n) ==
    IF n = 1 THEN {<<1>>}
    ELSE UNION {{Append(d, x) : x \in 1..Min(d[n - 1] + 1, Len(HierTag))} : d \in DepthSeqs(n - 1)}

ParentOf(depths, i) ==
    IF depths[i] = 1 THEN 0
    ELSE CHOOSE j \in 1..(i - 1) :
            /\ depths[j] = depths[i] - 1
            /\ \A m \in (j + 1)..(i - 1) : depths[m] >= depths[i]

CodeOf(i) == "c" \o ToString(i)

ShapeDoc(depths, tags) ==
    Doc([i \in 1..Len(depths) |->
            Elem(tags[i], ParentOf(depths, i), [NoAttr EXCEPT !["code"] = CodeOf(i)], <<>>)])

\* Hierarchies as the schema nests them: network > station > sensorLocation > stream.
HierDocs ==
    UNION {{ShapeDoc(d, [i \in 1..n |-> HierTag[d[i]]]) : d \in DepthSeqs(n)} : n \in 1..MaxHier}

\* Any nesting of the four hierarchy tags.
AnyDocs ==
    UNION {{ShapeDoc(d, t) : d \in DepthSeqs(n), t \in [1..n -> {HierTag[k] : k \in 1..Len(HierTag)}]}
           : n \in 1..MaxAny}

\* An optional child element: absent, present without text, or present with text.
KidOpts == {"absent", "empty", "text"}

OptKid(tag, opt, text) ==
    IF opt = "absent" THEN <<>>
    ELSE IF opt = "empty" THEN <<Kid(tag, None)>>
    ELSE <<Kid(tag, text)>>

Attrs(code, name, publicID, sensor, datalogger) ==
    [code |-> code, name |-> name, publicID |-> publicID,
     sensor |-> sensor, datalogger |-> datalogger, response |-> None]

HierHead ==
    << Elem("network", 0, Attrs("GE", None, None, None, None), <<>>),
       Elem("station", 1, Attrs("APE", "Apirathos", None, None, None), <<>>),
       Elem("sensorLocation", 2, Attrs("00", None, None, None, None), <<>>) >>

\* One location with two streams, and at most one sensor and one datalogger:
\* the first stream's references and serial numbers, and the equipment's
\* publicID and serial number, vary.
EquipmentDocs ==
    { Doc(HierHead
          \o << Elem("stream", 3, Attrs("BHZ", None, None, sref, dref),
                     OptKid("sensorSerialNumber", ss, "S-stream")
                     \o OptKid("dataloggerSerialNumber", ds, "D-stream")),
                Elem("stream", 3, Attrs("BHN", None, None, "S1", "D1"), <<>>) >>
          \o (IF sen.have
              THEN <<Elem("sensor", 0, Attrs(None, "STS-2", sen.id, None, None),
                          OptKid("serialNumber", sen.sn, "S-equip"))>>
              ELSE <<>>)
          \o (IF dl.have
              THEN <<Elem("datalogger", 0, Attrs(None, "Q330", dl.id, None, None),
                          OptKid("serialNumber", dl.sn, "D-equip"))>>
              ELSE <<>>))
      : sref \in {None, "S1", "SX"}, dref \in {None, "D1"},
        ss \in KidOpts, ds \in KidOpts,
        sen \in {[have |-> FALSE, id |-> None, sn |-> "absent"]}
                \cup [have : {TRUE}, id : {None, "S1"}, sn : KidOpts],
        dl \in {[have |-> FALSE, id |-> None, sn |-> "absent"]}
               \cup [have : {TRUE}, id : {None, "D1"}, sn : KidOpts] }


\* The longest decimation sequence of a datalogger.
MaxDecim == 2

DecOpts == [num : {"absent", "text"}, ana : {"absent", "null", "text"}, dig : {"absent", "text"}]

DecimationElem(parent, o) ==
    Elem("decimation", parent, NoAttr,
         OptKid("sampleRateNumerator", o.num, "100")
         \o <<Kid("sampleRateDenominator", "1")>>
         \o OptKid("analogueFilterChain", IF o.ana = "null" THEN "text" ELSE o.ana,
                   IF o.ana = "null" THEN "null" ELSE "FA1 FA2")
         \o OptKid("digitalFilterChain", o.dig, "FD1"))

\* One stream that names datalogger D1, whose decimations vary in number and
\* content, followed by no other datalogger, by a second datalogger that
\* repeats the publicID D1, or by a datalogger D2.
DecimationDocs ==
    { Doc(HierHead
          \o << Elem("stream", 3, Attrs("BHZ", None, None, None, "D1"), <<>>),
                Elem("datalogger", 0, Attrs(None, "Q330", "D1", None, None), <<>>) >>
          \o [k \in 1..Len(decs) |-> DecimationElem(5, decs[k])]
          \o (IF second = "none" THEN <<>>
              ELSE << Elem("datalogger", 0,
                           Attrs(None, "PS6", IF second = "same" THEN "D1" ELSE "D2", None, None),
                           <<>>),
                      DecimationElem(6 + Len(decs),
                                     [num |-> "text", ana |-> "absent", dig |-> "text"]) >>))
      : decs \in UNION {[1..n -> DecOpts] : n \in 0..MaxDecim},
        second \in {"none", "same", "other"} }

\* The partial-failure scenario: ScenarioStreams streams in one location, of
\* which stream number BadStream has a depth that is no number.
ScenarioStreams == 10
BadStream == 5

ScenarioDoc ==
    Doc(HierHead
        \o [k \in 1..ScenarioStreams |->
              Elem("stream", 3, Attrs(CodeOf(k), None, None, None, None),
                   <<Kid("depth", IF k = BadStream THEN "abc" ELSE "10")>>)])

\* A file that is not well-formed, and a document without an Inventory element.
MalformedFile == File(FALSE, "", FALSE, <<>>)
NoInventoryFile == File(TRUE, "seiscomp", FALSE, <<>>)

InputFiles ==
    HierDocs \cup AnyDocs \cup EquipmentDocs \cup DecimationDocs
    \cup {ScenarioDoc, MalformedFile, NoInventoryFile}

-----------------------------------------------------------------------------
(* SeisCompInventoryEditor: reading a node into the form *)

\* The editor's _get_element_text: default when the child is absent, and the
\* child's text (None for an empty element) when it is present.
GetElementTextE(node, tag, default) ==
    IF Find(node, tag) = 0 THEN default ELSE node.kids[Find(node, tag)].text

StationFields ==
    <<"station_code", "station_name", "station_description", "station_lat",
      "station_lon", "station_elevation">>

SensorFields ==
    <<"sensor_name", "sensor_type", "sensor_model", "sensor_manufacturer", "sensor_serial">>

DataloggerFields ==
    <<"datalogger_name", "datalogger_type", "datalogger_model",
      "datalogger_manufacturer", "datalogger_serial">>

StreamFields ==
    <<"stream_code", "stream_start", "stream_end", "stream_depth", "stream_azimuth",
      "stream_dip", "stream_gain", "stream_sampleRate", "stream_gainFrequency",
      "stream_gainUnit", "stream_datalogger_serialnumber",
      "stream_sensor_serialnumber", "stream_flags">>

Range(seq) == {seq[k] : k \in 1..Len(seq)}

FormFields ==
    Range(StationFields) \cup Range(SensorFields) \cup Range(DataloggerFields)
    \cup Range(StreamFields)

\* Every QLineEdit is empty when the window is built.
EmptyForm == [f \in FormFields |-> ""]

\* The texts float() accepts, with the number each denotes as <<numerator,
\* denominator>> in lowest terms.  float() raises ValueError for any other
\* text of the model but "inf", and TypeError for None.
NumberOf ==
    [t \in {"0", "1", "10", "100", "0.0", "0.1", "1.0", "10.0", "100.0"} |->
        CASE t \in {"0", "0.0"} -> <<0, 1>>
          [] t \in {"1", "1.0"} -> <<1, 1>>
          [] t \in {"10", "10.0"} -> <<10, 1>>
          [] t \in {"100", "100.0"} -> <<100, 1>>
          [] t = "0.1" -> <<1, 10>>]

RECURSIVE Gcd(_, _)
Gcd(a, b) == IF b = 0 THEN a ELSE Gcd(b, a % b)

\* x / y of two floats, y not zero.
Divide(x, y) ==
    LET n == x[1] * y[2]
        d == x[2] * y[1]
        g == Gcd(n, d)
    IN  IF n = 0 THEN <<0, 1>> ELSE <<n \div g, d \div g>>

\* str(x) of a float: the shortest decimal text that reads back as x.
StrFloat(x) ==
    IF x[2] = 1 THEN ToString(x[1]) \o ".0"
    ELSE IF x[2] = 10 THEN ToString(x[1] \div 10) \o "." \o ToString(x[1] % 10)
    ELSE ToString(x[1] \div 100) \o "." \o ToString((x[1] % 100) \div 10)
         \o ToString(x[1] % 10)

\* The sample-rate part of populate_stream_fields: the exception it raises
\* ("" when it raises none) and the text it puts into stream_sampleRate.
\* ValueError and ZeroDivisionError are caught and give ''; the TypeError of
\* float(None), for an element that is present without text, is not caught.
SampleRateRead(stream) ==
    LET numerator == GetElementTextE(stream, "sampleRateNumerator", "0")
        denominator == GetElementTextE(stream, "sampleRateDenominator", "1")
    IN  IF numerator = None THEN [raises |-> "TypeError", text |-> ""]
        ELSE IF numerator \notin DOMAIN NumberOf THEN [raises |-> "", text |-> ""]
        ELSE IF denominator = None THEN [raises |-> "TypeError", text |-> ""]
        ELSE IF denominator \notin DOMAIN NumberOf THEN [raises |-> "", text |-> ""]
        ELSE IF NumberOf[denominator][1] = 0 THEN [raises |-> "", text |-> ""]
        ELSE [raises |-> "",
              text |-> StrFloat(Divide(NumberOf[numerator], NumberOf[denominator]))]

\* QLineEdit.setText(value): PyQt raises TypeError for None.
SetText(field, value) ==
    IF value = None THEN [field |-> field, raises |-> "TypeError", text |-> ""]
    ELSE [field |-> field, raises |-> "", text |-> value]

\* The setText calls of the four populate_*_fields methods, in order.
PopulateStation(node) ==
    << SetText("station_code", Get(node, "code", "")),
       SetText("station_name", Get(node, "name", "")),
       SetText("station_description", GetElementTextE(node, "description", "")),
       SetText("station_lat", GetElementTextE(node, "latitude", "")),
       SetText("station_lon", GetElementTextE(node, "longitude", "")),
       SetText("station_elevation", GetElementTextE(node, "elevation", "")) >>

PopulateSensor(node) ==
    << SetText("sensor_name", Get(node, "name", "")),
       SetText("sensor_type", GetElementTextE(node, "type", "")),
       SetText("sensor_model", GetElementTextE(node, "model", "")),
       SetText("sensor_manufacturer", GetElementTextE(node, "manufacturer", "")),
       SetText("sensor_serial", GetElementTextE(node, "serialNumber", "")) >>

PopulateDatalogger(node) ==
    << SetText("datalogger_name", Get(node, "name", "")),
       SetText("datalogger_type", GetElementTextE(node, "type", "")),
       SetText("datalogger_model", GetElementTextE(node, "model", "")),
       SetText("datalogger_manufacturer", GetElementTextE(node, "manufacturer", "")),
       SetText("datalogger_serial", GetElementTextE(node, "serialNumber", "")) >>

PopulateStream(node) ==
    << SetText("stream_code", Get(node, "code", "")),
       SetText("stream_start", GetElementTextE(node, "start", "")),
       SetText("stream_end", GetElementTextE(node, "end", "")),
       SetText("stream_depth", GetElementTextE(node, "depth", "")),
       SetText("stream_azimuth", GetElementTextE(node, "azimuth", "")),
       SetText("stream_dip", GetElementTextE(node, "dip", "")),
       SetText("stream_gain", GetElementTextE(node, "gain", "")),
       [field |-> "stream_sampleRate", raises |-> SampleRateRead(node).raises,
        text |-> SampleRateRead(node).text],
       SetText("stream_gainFrequency", GetElementTextE(node, "gainFrequency", "")),
       SetText("stream_gainUnit", GetElementTextE(node, "gainUnit", "")),
       SetText("stream_datalogger_serialnumber",
               GetElementTextE(node, "dataloggerSerialNumber", "")),
       SetText("stream_sensor_serialnumber", GetElementTextE(node, "sensorSerialNumber", "")),
       SetText("stream_flags", GetElementTextE(node, "flags", "")) >>

\* The form and the exception after the calls from k on: the first call that
\* raises ends the method, and the fields after it keep their text.
RECURSIVE RunPopulate(_, _, _)
RunPopulate(f, calls, k) ==
    IF k > Len(calls) THEN [form |-> f, raises |-> ""]
    ELSE IF calls[k].raises # "" THEN [form |-> f, raises |-> calls[k].raises]
    ELSE RunPopulate([f EXCEPT ![calls[k].field] = calls[k].text], calls, k + 1)

\* item_selected's dispatch on the item type: a network or a location item
\* fills no tab.
PopulateCalls(node) ==
    CASE node.tag = "station" -> PopulateStation(node)
      [] node.tag = "sensor" -> PopulateSensor(node)
      [] node.tag = "datalogger" -> PopulateDatalogger(node)
      [] node.tag = "stream" -> PopulateStream(node)
      [] OTHER -> <<>>

-----------------------------------------------------------------------------
(* SeisCompInventoryEditor: committing the form to a node *)

RemoveAt(seq, i) == [k \in 1..(Len(seq) - 1) |-> IF k < i THEN seq[k] ELSE seq[k + 1]]

\* A variant of _update_element_text that makes the element of a non-empty
\* value the node's only child.
UpdateElementTextOnlyChild(node, tag, value) ==
    IF value # "" THEN [node EXCEPT !.kids = <<Kid(tag, value)>>]
    ELSE IF Find(node, tag) # 0 THEN [node EXCEPT !.kids = RemoveAt(@, Find(node, tag))]
    ELSE node

\* _update_element_text(element, tag, value): value is the text of a QLineEdit,
\* a str.  The element found is the first child with the tag; a new element
\* is appended after the other children.
UpdateElementText(node, tag, value) ==
    IF value # ""
    THEN IF Find(node, tag) = 0
         THEN [node EXCEPT !.kids = Append(@, Kid(tag, value))]
         ELSE [node EXCEPT !.kids[Find(node, tag)].text = value]
    ELSE IF Find(node, tag) # 0
         THEN [node EXCEPT !.kids = RemoveAt(@, Find(node, tag))]
         ELSE node

\* element.set(name, value) and del element.attrib[name]
SetAttr(node, name, value) == [node EXCEPT !.attr[name] = value]
DelAttr(node, name) == [node EXCEPT !.attr[name] = None]

\* The calls of _update_element_text of one commit, in order: each is
\* <<tag, form field>>.
RECURSIVE UpdateTexts(_, _, _)
UpdateTexts(node, f, calls) ==
    IF calls = <<>> THEN node
    ELSE UpdateTexts(UpdateElementText(node, Head(calls)[1], f[Head(calls)[2]]), f, Tail(calls))

\* The _update_element_text calls of each commit method, in order.
StationTexts ==
    << <<"description", "station_description">>, <<"latitude", "station_lat">>,
       <<"longitude", "station_lon">>, <<"elevation", "station_elevation">> >>

SensorTexts ==
    << <<"type", "sensor_type">>, <<"model", "sensor_model">>,
       <<"manufacturer", "sensor_manufacturer">>, <<"serialNumber", "sensor_serial">> >>

DataloggerTexts ==
    << <<"type", "datalogger_type">>, <<"model", "datalogger_model">>,
       <<"manufacturer", "datalogger_manufacturer">>, <<"serialNumber", "datalogger_serial">> >>

\* update_stream: the calls before and after the sample rate conversion.
StreamTextsBefore ==
    << <<"start", "stream_start">>, <<"end", "stream_end">>, <<"depth", "stream_depth">>,
       <<"azimuth", "stream_azimuth">>, <<"dip", "stream_dip">>, <<"gain", "stream_gain">> >>

StreamTextsAfter ==
    << <<"gainFrequency", "stream_gainFrequency">>, <<"gainUnit", "stream_gainUnit">>,
       <<"dataloggerSerialNumber", "stream_datalogger_serialnumber">>,
       <<"sensorSerialNumber", "stream_sensor_serialnumber">>, <<"flags", "stream_flags">> >>

\* The body of update_station's try: the node afterwards and the exception
\* raised ("" when none).
UpdateStationBody(node, f) ==
    LET a == IF f["station_code"] # "" THEN SetAttr(node, "code", f["station_code"]) ELSE node
        b == IF f["station_name"] # "" THEN SetAttr(a, "name", f["station_name"])
             ELSE IF a.attr["name"] # None THEN DelAttr(a, "name")
             ELSE a
    IN  [node |-> UpdateTexts(b, f, StationTexts), raises |-> ""]

UpdateSensorBody(node, f) ==
    [node |-> UpdateTexts(SetAttr(node, "name", f["sensor_name"]), f, SensorTexts),
     raises |-> ""]

UpdateDataloggerBody(node, f) ==
    [node |-> UpdateTexts(SetAttr(node, "name", f["datalogger_name"]), f, DataloggerTexts),
     raises |-> ""]

\* "Handle sample rate conversion": float(text) raises ValueError for a text
\* that is no number, which is caught and leaves both elements alone;
\* int(float('inf')) raises OverflowError, which the inner except does not
\* catch; int() truncates.
SampleRateWrite(node, text) ==
    IF text = "inf" THEN [node |-> node, raises |-> "OverflowError"]
    ELSE IF text \notin DOMAIN NumberOf THEN [node |-> node, raises |-> ""]
    ELSE [node |-> UpdateElementText(
                      UpdateElementText(node, "sampleRateNumerator",
                          ToString(NumberOf[text][1] \div NumberOf[text][2])),
                      "sampleRateDenominator", "1"),
          raises |-> ""]

UpdateStreamBody(node, f) ==
    LET a == UpdateTexts(SetAttr(node, "code", f["stream_code"]), f, StreamTextsBefore)
        b == SampleRateWrite(a, f["stream_sampleRate"])
    IN  IF b.raises # "" THEN b
        ELSE [node |-> UpdateTexts(b.node, f, StreamTextsAfter), raises |-> ""]

UpdateOps == {"update_station", "update_sensor", "update_datalogger", "update_stream"}

\* The body of the try of the commit method op.
UpdateBody(op, node, f) ==
    CASE op = "update_station" -> UpdateStationBody(node, f)
      [] op = "update_sensor" -> UpdateSensorBody(node, f)
      [] op = "update_datalogger" -> UpdateDataloggerBody(node, f)
      [] op = "update_stream" -> UpdateStreamBody(node, f)

-----------------------------------------------------------------------------
(* SeisCompInventoryEditor: the files, the session and the handlers *)

\* No file under a name, and a file cut short by a failed write.
NoFile == File(FALSE, "<absent>", FALSE, <<>>)
PartialFile == File(FALSE, "<partial>", FALSE, <<>>)

\* Path(name).with_suffix('.xml.bak') of a name that ends in .xml
BackupOf(name) == name \o ".bak"

\* The files the user can pick in the dialog.
FileNames == {"a.xml", "b.xml", "bad.xml", "other.xml", "noinv.xml"}

AllNames == FileNames \cup {BackupOf(n) : n \in FileNames}

EditorNodes(stationKids, streamKids) ==
    << Elem("network", 0, Attrs("GE", None, None, None, None), <<>>),
       Elem("station", 1, Attrs("APE", "Apirathos", None, None, None), stationKids),
       Elem("sensorLocation", 2, Attrs("00", None, None, None, None), <<>>),
       Elem("stream", 3, Attrs("BHZ", None, None, "S1", "D1"),
            <<Kid("depth", "10"), Kid("format", "Steim2")>> \o streamKids),
       Elem("sensor", 0, Attrs(None, "STS-2", "S1", None, None), <<Kid("model", "STS-2/N")>>),
       Elem("datalogger", 0, Attrs(None, "Q330", "D1", None, None), <<>>) >>

\* The <description> children of the station: none, one, one without text,
\* and two.
StationKidSets ==
    { <<>>, <<Kid("description", "A")>>, <<Kid("description", None)>>,
      <<Kid("description", "A"), Kid("description", "B")>> }

\* The sample rate of the stream, <<numerator, denominator>>: each of the two
\* elements absent, without text, or with a text.
Absent == <<"absent", "">>
Empty == <<"empty", "">>
Text(t) == <<"text", t>>

RatePairs ==
    { <<Text("100"), Text("1")>>, <<Absent, Absent>>, <<Empty, Text("1")>>,
      <<Text("100"), Empty>>, <<Text("100"), Text("0")>>, <<Text("abc"), Text("1")>>,
      <<Text("1"), Text("10")>> }

RateKids(n, d) ==
    OptKid("sampleRateNumerator", n[1], n[2]) \o OptKid("sampleRateDenominator", d[1], d[2])

\* The documents a.xml may hold when the editor starts.
EditorDocs ==
    {Doc(EditorNodes(k, RateKids(Text("100"), Text("1")))) : k \in StationKidSets}
    \cup {Doc(EditorNodes(<<Kid("description", "A")>>, RateKids(r[1], r[2]))) : r \in RatePairs}

\* What a.xml.bak may hold when the editor starts: nothing, or the document
\* an earlier session saved over.
OldBackup == Doc(EditorNodes(<<Kid("description", "old")>>, <<>>))

OtherDoc ==
    Doc(<< Elem("network", 0, Attrs("XX", None, None, None, None), <<>>),
           Elem("station", 1, Attrs("B01", None, None, None, None), <<>>) >>)

InitialDisks ==
    { [n \in AllNames |->
         CASE n = "a.xml" -> a
           [] n = BackupOf("a.xml") -> bak
           [] n = "b.xml" -> OtherDoc
           [] n = "bad.xml" -> MalformedFile
           [] n = "other.xml" -> File(TRUE, "other", TRUE, <<>>)
           [] n = "noinv.xml" -> NoInventoryFile
           [] OTHER -> NoFile]
      : a \in EditorDocs, bak \in {NoFile, OldBackup} }

\* What the user typed into the fields of a tab before pressing its button:
\* field -> text, for the fields changed.
TypedStation ==
    { EmptyDict, [station_code |-> ""], [station_name |-> ""], [station_description |-> ""],
      [station_description |-> "D2"] }

TypedSensor == {[sensor_name |-> ""], [sensor_model |-> "M2"]}

TypedDatalogger == {[datalogger_name |-> ""], [datalogger_model |-> "M2"]}

TypedStream ==
    { EmptyDict, [stream_code |-> ""], [stream_sampleRate |-> ""], [stream_sampleRate |-> "abc"],
      [stream_sampleRate |-> "0.1"], [stream_sampleRate |-> "inf"],
      [stream_code |-> "NEW", stream_sampleRate |-> "inf", stream_flags |-> "F"] }

Typed(op) ==
    CASE op = "update_station" -> TypedStation
      [] op = "update_sensor" -> TypedSensor
      [] op = "update_datalogger" -> TypedDatalogger
      [] op = "update_stream" -> TypedStream

\* The longest session: the number of user actions.
MaxSteps == 4

NoTree == [loaded |-> FALSE, root |-> "", nodes |-> <<>>]

NoElem == Elem("", 0, NoAttr, <<>>)

\* current_element: whether the attribute exists; the element is element idx
\* of the loaded tree while attached, and an element of a tree that was
\* replaced by a later load (kept in node) otherwise.
NoCurrent == [has |-> FALSE, attached |-> FALSE, idx |-> 0, node |-> NoElem]

CurrentNode ==
    IF ~current_element.has THEN NoElem
    ELSE IF current_element.attached THEN tree.nodes[current_element.idx]
    ELSE current_element.node

\* last: the handler that ran last (for item_selected, the element of the item
\* clicked; for closeEvent, the reply to its dialog), the exception raised in
\* it, whether it reported success, and the tree, the current element, the
\* file under the current name and the Dirty flag as they were before it.
Last(op, item, raised, ok) ==
    [op |-> op, item |-> item, raised |-> raised, ok |-> ok, reply |-> "",
     before |-> tree.nodes, elem |-> CurrentNode,
     file |-> IF current_file = None THEN NoFile ELSE disk[current_file],
     dirty |-> unsaved_changes]

\* The state SeisCompInventoryEditor.__init__ leaves.
EditorConstructed ==
    /\ current_file = None
    /\ tree = NoTree
    /\ unsaved_changes = FALSE
    /\ current_element = NoCurrent
    /\ form = EmptyForm
    /\ uncaught = ""
    /\ running = TRUE
    /\ last = [op |-> "__init__", item |-> 0, raised |-> "", ok |-> TRUE, reply |-> "", before |-> <<>>, elem |-> NoElem,
               file |-> NoFile, dirty |-> FALSE]
    /\ steps = 0

AnalyzerConstructed ==
    /\ sensor_lookup = EmptyDict
    /\ datalogger_lookup = EmptyDict
    /\ response_lookup = EmptyDict
    /\ paz_lookup = EmptyDict
    /\ unified_data = <<>>
    /\ stderr = <<>>
    /\ csv = NoCsv
    /\ pc = "start"
    /\ parses = 0

InitEditor ==
    /\ disk \in InitialDisks
    /\ EditorConstructed
    /\ inventory_file = NoFile
    /\ AnalyzerConstructed

\* A user action is handled while the application runs.
Step == running /\ steps < MaxSteps /\ steps' = steps + 1

\* A variant of _validate_xml_structure that looks at the root's tag only.
ValidateXmlStructureRootOnly(content) == content.root = "seiscomp"

\* _validate_xml_structure(root)
ValidateXmlStructure(content) == content.root = "seiscomp" /\ content.inv

\* load_xml, the user picking file name in the dialog ("" when the dialog is
\* cancelled).  ET.parse raises on a missing or ill-formed file, which is
\* caught and shown.  A successful load replaces the tree; the element
\* current_element names stays an element of the replaced tree.
LoadXml(name) ==
    /\ Step
    /\ uncaught' = ""
    /\ running' = TRUE
    /\ UNCHANGED <<disk, unsaved_changes, form, avars>>
    /\ IF name = "" \/ ~disk[name].wf \/ ~ValidateXmlStructure(disk[name])
       THEN /\ last' = Last("load_xml", 0,
                            IF name # "" /\ ~disk[name].wf THEN "ParseError" ELSE "", FALSE)
            /\ UNCHANGED <<current_file, tree, current_element>>
       ELSE /\ last' = Last("load_xml", 0, "", TRUE)
            /\ current_file' = name
            /\ tree' = [loaded |-> TRUE, root |-> disk[name].root, nodes |-> disk[name].nodes]
            /\ current_element' =
                  IF current_element.has /\ current_element.attached
                  THEN [current_element EXCEPT !.attached = FALSE, !.idx = 0, !.node = CurrentNode]
                  ELSE current_element

\* populate_tree: the elements that get a tree item carrying (type, element).
ItemElements(nodes) ==
    LET networks == Range(FindAllDesc(nodes, 0, "network"))
        stations == UNION {Range(FindAllDesc(nodes, n, "station")) : n \in networks}
        locations == UNION {Range(FindAllDesc(nodes, s, "sensorLocation")) : s \in stations}
        streams == UNION {Range(FindAllChild(nodes, l, "stream")) : l \in locations}
    IN  networks \cup stations \cup locations \cup streams
        \cup Range(FindAllDesc(nodes, 0, "sensor"))
        \cup Range(FindAllDesc(nodes, 0, "datalogger"))

\* populate_tree: whether there is a "Sensors" or a "Dataloggers" heading,
\* an item without data.
HasHeading(nodes) ==
    FindAllDesc(nodes, 0, "sensor") # <<>> \/ FindAllDesc(nodes, 0, "datalogger") # <<>>

\* item_selected(item), the user clicking the item of element i (0: a
\* heading).  Unpacking the data of a heading raises TypeError before
\* anything is assigned.  An exception leaves the slot; the application then
\* goes on or is aborted, as PyQt is set up.
ItemSelected(i) ==
    /\ Step
    /\ tree.loaded
    /\ i \in ItemElements(tree.nodes) \cup (IF HasHeading(tree.nodes) THEN {0} ELSE {})
    /\ UNCHANGED <<disk, current_file, tree, unsaved_changes, avars>>
    /\ IF i = 0
       THEN /\ uncaught' = "TypeError"
            /\ last' = Last("item_selected", 0, "TypeError", FALSE)
            /\ UNCHANGED <<current_element, form>>
       ELSE LET r == RunPopulate(form, PopulateCalls(tree.nodes[i]), 1)
            IN  /\ current_element' = [has |-> TRUE, attached |-> TRUE, idx |-> i, node |-> NoElem]
                /\ form' = r.form
                /\ uncaught' = r.raises
                /\ last' = Last("item_selected", i, r.raises, r.raises = "")
    /\ running' \in (IF uncaught' = "" THEN {TRUE} ELSE BOOLEAN)

\* update_station, update_sensor, update_datalogger and update_stream, the
\* user having typed the texts of typed into the tab.  Without a
\* current_element nothing is done.  An exception of the body is caught and
\* shown, after the assignments made before it; otherwise populate_tree
\* rebuilds the items and the session becomes Dirty.
Commit(op, typed) ==
    /\ Step
    /\ form' = typed @@ form
    /\ uncaught' = ""
    /\ running' = TRUE
    /\ UNCHANGED <<disk, current_file, avars>>
    /\ IF ~current_element.has
       THEN /\ last' = Last(op, 0, "", FALSE)
            /\ UNCHANGED <<tree, current_element, unsaved_changes>>
       ELSE LET r == UpdateBody(op, CurrentNode, form')
            IN  /\ last' = Last(op, 0, r.raises, r.raises = "")
                /\ IF current_element.attached
                   THEN /\ tree' = [tree EXCEPT !.nodes[current_element.idx] = r.node]
                        /\ UNCHANGED current_element
                   ELSE /\ current_element' = [current_element EXCEPT !.node = r.node]
                        /\ UNCHANGED tree
                /\ unsaved_changes' = IF r.raises = "" THEN TRUE ELSE unsaved_changes

UpdateStation == \E typed \in TypedStation : Commit("update_station", typed)
UpdateSensor == \E typed \in TypedSensor : Commit("update_sensor", typed)
UpdateDatalogger == \E typed \in TypedDatalogger : Commit("update_datalogger", typed)
UpdateStream == \E typed \in TypedStream : Commit("update_stream", typed)

\* What the operating system does with the three file operations of one
\* save_xml: whether the rename to the backup name succeeds, how the write
\* ends, and whether the rename back succeeds.
SaveOutcomes == [rename : BOOLEAN, write : {"ok", "open fails", "partial"}, restore : BOOLEAN]

\* Path.rename(target): the file takes the target's name, replacing a file
\* that has it.
Rename(d, from, to) == [d EXCEPT ![to] = d[from], ![from] = NoFile]

\* A variant of save_xml's condition that lets every save go on.
SavePermittedAlways == TRUE

\* "if self.current_file and self.tree"
SavePermitted == current_file # None /\ tree.loaded

\* save_xml with the outcomes o: the files, the Dirty flag, the exception
\* raised in the try, the exception that leaves the method and whether the
\* save succeeded.  Nothing is done without a current file and a tree.  The
\* file is renamed to the backup name and the tree written under the file's
\* name; an exception of either is caught and shown, and then a file that
\* has the backup name is renamed back.  An exception of that rename leaves
\* the method.  (Path(None) raises TypeError before backup_path is bound, and
\* None has no write.)
SaveResult(o) ==
    IF ~SavePermitted
    THEN [disk |-> disk, dirty |-> unsaved_changes, raised |-> "", uncaught |-> "", ok |-> FALSE]
    ELSE IF current_file = None
    THEN [disk |-> disk, dirty |-> unsaved_changes, raised |-> "TypeError",
          uncaught |-> "UnboundLocalError", ok |-> FALSE]
    ELSE LET bak == BackupOf(current_file)
             renamed == o.rename /\ disk[current_file] # NoFile
             d1 == IF renamed THEN Rename(disk, current_file, bak) ELSE disk
             d2 == IF ~renamed \/ ~tree.loaded \/ o.write = "open fails" THEN d1
                   ELSE [d1 EXCEPT ![current_file] =
                           IF o.write = "ok" THEN File(TRUE, tree.root, TRUE, tree.nodes)
                           ELSE PartialFile]
             failed == ~renamed \/ ~tree.loaded \/ o.write # "ok"
             restoring == failed /\ d2[bak] # NoFile
         IN  [disk |-> IF restoring /\ o.restore THEN Rename(d2, bak, current_file) ELSE d2,
              dirty |-> IF failed THEN unsaved_changes ELSE FALSE,
              raised |-> IF failed THEN "OSError" ELSE "",
              uncaught |-> IF restoring /\ ~o.restore THEN "OSError" ELSE "",
              ok |-> ~failed]

\* save_xml, from the button, the menu or the shortcut.
SaveXml(o) ==
    /\ Step
    /\ UNCHANGED <<current_file, tree, current_element, form, avars>>
    /\ last' = Last("save_xml", 0, SaveResult(o).raised, SaveResult(o).ok)
    /\ disk' = SaveResult(o).disk
    /\ unsaved_changes' = SaveResult(o).dirty
    /\ uncaught' = SaveResult(o).uncaught
    /\ running' \in (IF uncaught' = "" THEN {TRUE} ELSE BOOLEAN)

\* The buttons of the "Save Changes?" dialog.
Replies == {"Save", "Discard", "Cancel"}

\* closeEvent(event), the user answering reply when the dialog is shown and
\* the save having the outcomes o.  Cancel ignores the event and the window
\* stays; otherwise the event is accepted, whatever save_xml did, and the
\* application ends.  An exception that leaves save_xml leaves closeEvent
\* before event.accept().
CloseEvent(reply, o) ==
    /\ Step
    /\ UNCHANGED <<current_file, tree, current_element, form, avars>>
    /\ IF unsaved_changes /\ reply = "Save"
       THEN /\ disk' = SaveResult(o).disk
            /\ unsaved_changes' = SaveResult(o).dirty
            /\ uncaught' = SaveResult(o).uncaught
            /\ running' \in (IF uncaught' = "" THEN {FALSE} ELSE BOOLEAN)
            /\ last' = [Last("closeEvent", 0, SaveResult(o).raised, SaveResult(o).ok)
                           EXCEPT !.reply = reply]
       ELSE /\ UNCHANGED <<disk, unsaved_changes>>
            /\ uncaught' = ""
            /\ running' = (unsaved_changes /\ reply = "Cancel")
            /\ last' = [Last("closeEvent", 0, "", TRUE)
                           EXCEPT !.reply = IF unsaved_changes THEN reply ELSE ""]

\* closeEvent calls save_xml, whose outcomes then matter, only for the reply
\* Save to the dialog, which is shown only with unsaved changes.
CloseOutcomes(reply) ==
    IF unsaved_changes /\ reply = "Save" THEN SaveOutcomes
    ELSE {[rename |-> TRUE, write |-> "ok", restore |-> TRUE]}

NextEditor ==
    \/ \E name \in FileNames \cup {""} : LoadXml(name)
    \/ \E i \in 0..Len(tree.nodes) : ItemSelected(i)
    \/ UpdateStation
    \/ UpdateSensor
    \/ UpdateDatalogger
    \/ UpdateStream
    \/ \E o \in SaveOutcomes : SaveXml(o)
    \/ \E reply \in Replies : \E o \in CloseOutcomes(reply) : CloseEvent(reply, o)

SpecEditor == InitEditor /\ [][NextEditor]_vars

-----------------------------------------------------------------------------
(* The analyzer's run: main() *)

InitAnalyzer ==
    /\ inventory_file \in InputFiles
    /\ AnalyzerConstructed
    /\ disk = [n \in AllNames |-> NoFile]
    /\ EditorConstructed

\* parse_inventory(xml_file).  ET.parse raises on a file that is not
\* well-formed, and the missing Inventory raises ValueError: either is caught
\* and printed, and the method returns normally.  The lookups and unified_data
\* are those the analyzer holds, with the entries of this document added.
ParseInventoryOf(file) ==
    IF ~file.wf \/ ~file.inv
    THEN /\ stderr' = Append(stderr, "Error parsing inventory")
         /\ UNCHANGED <<sensor_lookup, datalogger_lookup, response_lookup,
                        paz_lookup, unified_data>>
    ELSE LET nodes == file.nodes
             sensors == BuildSensorLookup(sensor_lookup, nodes,
                                          FindAllDesc(nodes, 0, "sensor"))
             dataloggers == BuildDataloggerLookup(datalogger_lookup, nodes,
                                                  FindAllDesc(nodes, 0, "datalogger"))
             done == ProcessVisits([data |-> unified_data, err |-> stderr],
                                   nodes, Visits(nodes), sensors, dataloggers)
         IN  /\ sensor_lookup' = sensors
             /\ datalogger_lookup' = dataloggers
             /\ response_lookup' = BuildResponseLookup(response_lookup, nodes,
                                         FindAllDesc(nodes, 0, "response"))
             /\ paz_lookup' = BuildPazLookup(paz_lookup, nodes,
                                         FindAllDesc(nodes, 0, "responsePAZ"))
             /\ unified_data' = done.data
             /\ stderr' = done.err

\* main's call analyzer.parse_inventory(args.inventory)
ParseInventory ==
    /\ pc = "start"
    /\ pc' = "parsed"
    /\ parses' = parses + 1
    /\ ParseInventoryOf(inventory_file)
    /\ UNCHANGED <<inventory_file, csv, evars>>

\* export_to_csv(output_dir).  Nothing is written for an empty unified_data;
\* an exception is caught and printed, and no file is written.
ExportToCsv ==
    /\ pc = "parsed"
    /\ pc' = "exported"
    /\ IF unified_data = <<>>
       THEN UNCHANGED <<csv, stderr>>
       ELSE IF ExportRaises(unified_data)
       THEN /\ stderr' = Append(stderr, "Error exporting CSV file")
            /\ UNCHANGED csv
       ELSE /\ csv' = [exists |-> TRUE, rows |-> Table(unified_data)]
            /\ UNCHANGED stderr
    /\ UNCHANGED <<inventory_file, sensor_lookup, datalogger_lookup, response_lookup,
                   paz_lookup, unified_data, parses, evars>>

NextAnalyzer == ParseInventory \/ ExportToCsv

SpecAnalyzer == InitAnalyzer /\ [][NextAnalyzer]_vars

-----------------------------------------------------------------------------
(* One analyzer, parse_inventory called again and again *)

\* The most calls of parse_inventory on one analyzer.
MaxParses == 3

\* A document with one stream, one sensor, one datalogger, one response and
\* one responsePAZ.
ReloadDoc(code, sid, did) ==
    Doc(HierHead
        \o << Elem("stream", 3, Attrs(code, None, None, sid, did), <<>>),
              Elem("sensor", 0, Attrs(None, "STS-2", sid, None, None), <<>>),
              Elem("datalogger", 0, Attrs(None, "Q330", did, None, None), <<>>),
              Elem("response", 0, Attrs(None, "R-" \o sid, "R-" \o sid, None, None), <<>>),
              Elem("responsePAZ", 0, Attrs(None, None, "P-" \o sid, None, None),
                   <<Kid("type", "A")>>) >>)

\* The files parse_inventory is called with.
ReloadFiles ==
    { ReloadDoc("BHZ", "S1", "D1"), ReloadDoc("BHN", "S2", "D2"), ReloadDoc("BHZ", "S1", "D2"),
      Doc(HierHead), MalformedFile, NoInventoryFile }

InitReload ==
    /\ inventory_file \in ReloadFiles
    /\ AnalyzerConstructed
    /\ disk = [n \in AllNames |-> NoFile]
    /\ EditorConstructed

\* A further call analyzer.parse_inventory(file) on the same analyzer.
ParseInventoryAgain(file) ==
    /\ pc = "parsed"
    /\ parses < MaxParses
    /\ parses' = parses + 1
    /\ inventory_file' = file
    /\ ParseInventoryOf(file)
    /\ UNCHANGED <<pc, csv, evars>>

NextReload ==
    \/ ParseInventory
    \/ \E file \in ReloadFiles : ParseInventoryAgain(file)

SpecReload == InitReload /\ [][NextReload]_vars

-----------------------------------------------------------------------------
(* Properties of the analyzer *)

Parsed == pc # "start" /\ inventory_file.wf /\ inventory_file.inv

\* The hierarchy as the schema nests it: a network below the Inventory, a
\* station below a network, a sensorLocation below a station, a stream below
\* a sensorLocation.
ValidHierarchy(nodes) ==
    \A j \in 1..Len(nodes) :
        /\ nodes[j].tag = "network" => nodes[j].parent = 0
        /\ nodes[j].tag \in {"station", "sensorLocation", "stream"} =>
              /\ nodes[j].parent # 0
              /\ \E d \in 2..Len(HierTag) :
                    /\ nodes[j].tag = HierTag[d]
                    /\ nodes[nodes[j].parent].tag = HierTag[d - 1]

\* The <stream> elements of the document, in document order.
AllStreams(nodes) == SelectSeq(Indices(nodes), LAMBDA j : nodes[j].tag = "stream")

\* C1: for every valid document, one parse_inventory pass on a fresh analyzer
\* produces exactly one record per <stream> element, and the k-th record is
\* that of the k-th <stream> element in document order (its channel, and the
\* codes of its location, station and network).
C1_OneRecordPerStream ==
    (Parsed /\ ValidHierarchy(inventory_file.nodes)) =>
        LET nodes == inventory_file.nodes
            streams == AllStreams(nodes)
        IN  /\ Len(unified_data) = Len(streams)
            /\ \A k \in 1..Len(streams) :
                 LET loc == nodes[streams[k]].parent
                     sta == nodes[loc].parent
                     net == nodes[sta].parent
                 IN  /\ unified_data[k]["channel"] = nodes[streams[k]].attr["code"]
                     /\ unified_data[k]["location"] = nodes[loc].attr["code"]
                     /\ unified_data[k]["station"] = nodes[sta].attr["code"]
                     /\ unified_data[k]["network"] = nodes[net].attr["code"]

\* A valid document with streams in two networks has been parsed.
C1_Witness ==
    /\ pc = "parsed"
    /\ ValidHierarchy(inventory_file.nodes)
    /\ Len(AllStreams(inventory_file.nodes)) = 2
    /\ Len(unified_data) = 2
    /\ unified_data[1]["network"] # unified_data[2]["network"]

\* A record's value under a key as the table shows it: '' when the key is
\* missing or its value is None.
Shown(rec, key) ==
    IF key \notin DOMAIN rec THEN "" ELSE IF rec[key] = None THEN "" ELSE rec[key]

Coalesced(rec, streamKey, equipmentKey) ==
    IF Shown(rec, streamKey) # "" THEN Shown(rec, streamKey) ELSE Shown(rec, equipmentKey)

\* C2: after the export, the table reports for every record the stream-level
\* serial number when it is non-empty, else the equipment-level one, else
\* empty, for the sensor and for the datalogger.
C2_SerialCoalescing ==
    pc = "exported" =>
        \A k \in 1..Len(unified_data) :
            /\ csv.exists
            /\ Len(csv.rows) = Len(unified_data)
            /\ csv.rows[k]["sensor_serial_number"] =
                  Coalesced(unified_data[k], "sensor_serial_number_stream",
                            "sensor_serial_number_equipment")
            /\ csv.rows[k]["datalogger_serial_number"] =
                  Coalesced(unified_data[k], "datalogger_serial_number_stream",
                            "datalogger_serial_number_equipment")

ResolvedDatalogger(nodes, ref) ==
    LET same == {j \in 1..Len(nodes) :
                    nodes[j].tag = "datalogger" /\ nodes[j].attr["publicID"] = ref}
    IN  IF same = {} THEN 0 ELSE CHOOSE j \in same : \A m \in same : m <= j

\* The <decimation> descendants of element i, in document order.
DecimationsOf(nodes, i) ==
    SelectSeq(Indices(nodes), LAMBDA j : nodes[j].tag = "decimation" /\ IsAncestor(nodes, i, j))

\* C10: the decimation_info of a record, parsed back, is the sequence of
\* (numerator, denominator, analogue chain, digital chain) of the <decimation>
\* descendants of the datalogger the stream resolves to, in document order;
\* a datalogger without decimations attaches no decimation_info.
C10_DecimationRoundTrip ==
    Parsed =>
        LET nodes == inventory_file.nodes
        IN  \A k \in 1..Len(unified_data) :
              LET dl == ResolvedDatalogger(nodes, nodes[Visits(nodes)[k][4]].attr["datalogger"])
                  decs == IF dl = 0 THEN <<>> ELSE DecimationsOf(nodes, dl)
              IN  IF decs = <<>>
                  THEN "decimation_info" \notin DOMAIN unified_data[k]
                  ELSE /\ "decimation_info" \in DOMAIN unified_data[k]
                       /\ LET back == JsonLoads(unified_data[k]["decimation_info"])
                          IN  /\ Len(back) = Len(decs)
                              /\ \A m \in 1..Len(decs) :
                                   /\ DOMAIN back[m] = {DecimationKeys[x] : x \in 1..Len(DecimationKeys)}
                                   /\ \A x \in 1..Len(DecimationKeys) :
                                        back[m][DecimationKeys[x]] =
                                           GetElementTextA(nodes[decs[m]], DecimationKeys[x])

\* A record carries a decimation_info of two stages, one with an absent
\* analogue chain and one whose analogue chain is the text "null".
C10_Witness ==
    /\ pc = "parsed"
    /\ Len(unified_data) = 1
    /\ "decimation_info" \in DOMAIN unified_data[1]
    /\ LET back == JsonLoads(unified_data[1]["decimation_info"])
       IN  /\ Len(back) = 2
           /\ back[1]["analogueFilterChain"] = None
           /\ back[2]["analogueFilterChain"] = "null"
           /\ back[1]["sampleRateNumerator"] = "100"

-----------------------------------------------------------------------------
(* The editor's commits, reads and saves *)

\* The kind of node a commit method is written for, its _update_element_text
\* calls and its code and name fields.
TagOf(op) ==
    CASE op = "update_station" -> "station"
      [] op = "update_sensor" -> "sensor"
      [] op = "update_datalogger" -> "datalogger"
      [] op = "update_stream" -> "stream"

TextCalls(op) ==
    CASE op = "update_station" -> StationTexts
      [] op = "update_sensor" -> SensorTexts
      [] op = "update_datalogger" -> DataloggerTexts
      [] op = "update_stream" -> StreamTextsBefore \o StreamTextsAfter

FieldOf(op, attribute) ==
    CASE op = "update_station" -> "station_" \o attribute
      [] op = "update_sensor" -> "sensor_" \o attribute
      [] op = "update_datalogger" -> "datalogger_" \o attribute
      [] op = "update_stream" -> "stream_" \o attribute

\* The commit method last.op has just run on a node of its own kind; the node
\* before is last.elem, the node after CurrentNode, the field values form.
Committed == last.op \in UpdateOps /\ current_element.has /\ last.elem.tag = TagOf(last.op)

\* C3: a commit that has just run on a node, run again with the same field
\* values, leaves the node as the first commit left it.
C3_CommitIdempotent ==
    Committed => UpdateBody(last.op, CurrentNode, form).node = CurrentNode

\* C4: after a commit that raised nothing, for each child-element field: the
\* node has the child element if and only if the value is non-empty, the
\* element's text is that value, and a further empty value changes nothing.
C4_ElementPresence ==
    (Committed /\ last.raised = "") =>
        \A c \in Range(TextCalls(last.op)) :
            /\ (Find(CurrentNode, c[1]) # 0) <=> (form[c[2]] # "")
            /\ form[c[2]] # "" => CurrentNode.kids[Find(CurrentNode, c[1])].text = form[c[2]]
            /\ form[c[2]] = "" => UpdateElementText(CurrentNode, c[1], "") = CurrentNode

\* C5: after update_station on a station or update_stream on a stream with an
\* empty code field, the node's code attribute is what it was before.
C5_RequiredCodeKept ==
    (Committed /\ last.op \in {"update_station", "update_stream"}
               /\ form[FieldOf(last.op, "code")] = "") =>
        CurrentNode.attr["code"] = last.elem.attr["code"]

\* C6: after update_station, update_sensor or update_datalogger on a node of
\* its kind with an empty name field, the node has no name attribute.
C6_EmptyNameDeleted ==
    (Committed /\ last.op \in {"update_station", "update_sensor", "update_datalogger"}
               /\ form[FieldOf(last.op, "name")] = "") =>
        CurrentNode.attr["name"] = None

\* The item clicked last was the item of a stream.
StreamSelected ==
    last.op = "item_selected" /\ last.item # 0 /\ tree.nodes[last.item].tag = "stream"

\* C7: after the item of a stream is selected, numerator 100 and denominator 1
\* show 100.0; a zero denominator, a non-numeric text or an element without
\* text shows an empty rate and no exception has left the handler.
C7_SampleRateRead ==
    StreamSelected =>
        LET numerator == GetElementTextE(tree.nodes[last.item], "sampleRateNumerator", "0")
            denominator == GetElementTextE(tree.nodes[last.item], "sampleRateDenominator", "1")
            NoRate(t) == t = None \/ t \notin DOMAIN NumberOf
        IN  /\ (numerator = "100" /\ denominator = "1") => form["stream_sampleRate"] = "100.0"
            /\ (NoRate(numerator) \/ NoRate(denominator) \/ NumberOf[denominator][1] = 0) =>
                  form["stream_sampleRate"] = "" /\ uncaught = ""

\* C9: after a save_xml that failed at the rename or at the write and whose
\* handler has returned, the file under the current name is the file that
\* was there before the save, and a Dirty session is still Dirty.
C9_SaveFailureRestores ==
    (last.op = "save_xml" /\ last.raised # "" /\ uncaught = "") =>
        /\ disk[current_file] = last.file
        /\ last.dirty => unsaved_changes

-----------------------------------------------------------------------------
(* The analyzer's table, references and repeated loads *)

\* C11: after the export of a non-empty unified_data there is a table with
\* one row per record, every row with the two coalesced serial-number columns
\* and none of the four source-level ones.
C11_TableProjection ==
    (pc = "exported" /\ unified_data # <<>>) =>
        /\ csv.exists
        /\ Len(csv.rows) = Len(unified_data)
        /\ \A k \in 1..Len(csv.rows) :
              /\ {"sensor_serial_number", "datalogger_serial_number"} \subseteq DOMAIN csv.rows[k]
              /\ DOMAIN csv.rows[k] \cap SerialColumns = {}

\* The keys a resolved sensor (resp. datalogger) adds to a record.
SensorKeys == DOMAIN SensorInfo(Elem("sensor", 0, NoAttr, <<>>))

DataloggerKeys ==
    (DOMAIN DataloggerInfo(<<Elem("datalogger", 0, NoAttr, <<>>)>>, 1) \ {"decimations"})
    \cup {"decimation_info"}

\* The identifiers the equipment elements with the tag carry.
Identifiers(nodes, tag) ==
    {nodes[j].attr["publicID"] : j \in {i \in 1..Len(nodes) : nodes[i].tag = tag}} \ {None}

\* C12: every stream visited is resolved, and the record of a stream whose
\* sensor (resp. datalogger) attribute is absent or is the identifier of no
\* sensor (resp. datalogger) has none of the sensor (resp. datalogger) fields.
C12_ReferenceMiss ==
    Parsed =>
        LET nodes == inventory_file.nodes
        IN  /\ Len(unified_data) = Len(Visits(nodes))
            /\ \A k \in 1..Len(unified_data) :
                  LET stream == nodes[Visits(nodes)[k][4]]
                  IN  /\ stream.attr["sensor"] \notin Identifiers(nodes, "sensor") =>
                            DOMAIN unified_data[k] \cap SensorKeys = {}
                      /\ stream.attr["datalogger"] \notin Identifiers(nodes, "datalogger") =>
                            DOMAIN unified_data[k] \cap DataloggerKeys = {}

\* What a fresh analyzer holds after parse_inventory(file) alone.
FreshParse(file) ==
    IF ~file.wf \/ ~file.inv
    THEN [sensors |-> EmptyDict, dataloggers |-> EmptyDict, responses |-> EmptyDict,
          paz |-> EmptyDict, data |-> <<>>]
    ELSE LET nodes == file.nodes
             sensors == BuildSensorLookup(EmptyDict, nodes, FindAllDesc(nodes, 0, "sensor"))
             dataloggers == BuildDataloggerLookup(EmptyDict, nodes,
                                                  FindAllDesc(nodes, 0, "datalogger"))
         IN  [sensors |-> sensors, dataloggers |-> dataloggers,
              responses |-> BuildResponseLookup(EmptyDict, nodes,
                                                FindAllDesc(nodes, 0, "response")),
              paz |-> BuildPazLookup(EmptyDict, nodes, FindAllDesc(nodes, 0, "responsePAZ")),
              data |-> ProcessVisits([data |-> <<>>, err |-> <<>>], nodes, Visits(nodes),
                                     sensors, dataloggers).data]

\* C13: after every parse_inventory call the four lookups and unified_data
\* are what a fresh analyzer holds after parsing the last document alone.
C13_RebuildOnLoad ==
    pc = "parsed" =>
        [sensors |-> sensor_lookup, dataloggers |-> datalogger_lookup,
         responses |-> response_lookup, paz |-> paz_lookup, data |-> unified_data]
            = FreshParse(inventory_file)

\* C14: once parse_inventory was called with a document that has no Inventory
\* container, the lookups and unified_data are as before the call (empty),
\* and main does not stand where it stands after a successful parse: it has
\* neither gone on past the call nor exported.
C14_NoInventoryHalts ==
    (pc # "start" /\ inventory_file.wf /\ ~inventory_file.inv) =>
        /\ sensor_lookup = EmptyDict /\ datalogger_lookup = EmptyDict
        /\ response_lookup = EmptyDict /\ paz_lookup = EmptyDict
        /\ unified_data = <<>>
        /\ pc \notin {"parsed", "exported"}

-----------------------------------------------------------------------------
(* The editor's session: saving, the Dirty flag and loads *)

\* C15: a save_xml that runs with no document loaded, from the button, the
\* menu or closeEvent, renames and writes no file, changes nothing of the
\* session, and no exception leaves it.
C15_NoSaveWhenUnloaded ==
    [][(~tree.loaded /\ last'.op \in {"save_xml", "closeEvent"}) =>
          /\ disk' = disk
          /\ <<current_file, tree, unsaved_changes, current_element, form>>'
                = <<current_file, tree, unsaved_changes, current_element, form>>
          /\ uncaught' = ""]_vars

\* save_xml has run with no document loaded.
C15_Witness == last.op = "save_xml" /\ ~tree.loaded /\ current_file = None /\ ~last.ok

\* C16: after a commit on a node of its kind that left the document different
\* from what it was, the session is Dirty.
C16_DirtyOnMutation ==
    (Committed /\ tree.nodes # last.before) => unsaved_changes

\* C17: after a successful load_xml the session has no unsaved changes.
C17_LoadedAfterLoad ==
    (last.op = "load_xml" /\ last.ok) => ~unsaved_changes

\* C18: a commit that reported success has modified a node of the tree that
\* save_xml would write: the current element is a node of the loaded tree,
\* and that node is what the commit made of it.
C18_CommitReflected ==
    (last.op \in UpdateOps /\ last.ok) =>
        /\ current_element.attached
        /\ tree.nodes[current_element.idx] = UpdateBody(last.op, last.elem, form).node

\* C19: after an update_stream on a stream in which the conversion of the
\* sample rate text raised, every other child-element field has its new
\* value: the element is absent for an empty text and has the text otherwise.
C19_FieldsIndependent ==
    (Committed /\ last.op = "update_stream" /\ form["stream_sampleRate"] \notin DOMAIN NumberOf) =>
        \A c \in Range(TextCalls(last.op)) :
            IF form[c[2]] = "" THEN Find(CurrentNode, c[1]) = 0
            ELSE /\ Find(CurrentNode, c[1]) # 0
                 /\ CurrentNode.kids[Find(CurrentNode, c[1])].text = form[c[2]]

\* The optional descriptive sub-elements of a sensor and of a datalogger, each
\* with the key it is stored under.
SensorElements ==
    { <<"description", "sensor_description">>, <<"manufacturer", "sensor_manufacturer">>,
      <<"model", "sensor_model">>, <<"type", "sensor_type">>, <<"unit", "sensor_unit">>,
      <<"remark", "sensor_remark">>, <<"serialNumber", "sensor_serial_number_equipment">> }

DataloggerElements ==
    { <<"description", "datalogger_description">>, <<"manufacturer", "datalogger_manufacturer">>,
      <<"model", "datalogger_model">>, <<"type", "datalogger_type">>,
      <<"remark", "datalogger_remark">>,
      <<"serialNumber", "datalogger_serial_number_equipment">> }

\* The elements with the tag, each the only one with its publicID.
OnlyOnes(nodes, tag) ==
    {j \in 1..Len(nodes) :
        /\ nodes[j].tag = tag
        /\ \A i \in 1..Len(nodes) :
              (nodes[i].tag = tag /\ nodes[i].attr["publicID"] = nodes[j].attr["publicID"]) => i = j}

\* The entry info of element node keeps absent and present apart: None for a
\* sub-element that is missing, another value for one that is present.
KeepsApart(node, info, elements) ==
    \A c \in elements :
        IF Find(node, c[1]) = 0 THEN info[c[2]] = None ELSE info[c[2]] # None

\* C20: in the lookups a missing sub-element of a sensor or a datalogger is
\* None, and a sub-element that is present, blank or not, is a value other
\* than None.
C20_AbsentVersusBlank ==
    Parsed =>
        LET nodes == inventory_file.nodes
        IN  /\ \A j \in OnlyOnes(nodes, "sensor") :
                  KeepsApart(nodes[j], sensor_lookup[nodes[j].attr["publicID"]], SensorElements)
            /\ \A j \in OnlyOnes(nodes, "datalogger") :
                  KeepsApart(nodes[j], datalogger_lookup[nodes[j].attr["publicID"]],
                             DataloggerElements)

-----------------------------------------------------------------------------
(* The editor's active node, the frame of a commit, failed loads and closing *)

\* C21: a commit that has changed the node it ran on ran on a node of its
\* own kind: update_station on a station, update_sensor on a sensor,
\* update_datalogger on a datalogger, update_stream on a stream.
C21_CommitMatchesKind ==
    (last.op \in UpdateOps /\ current_element.has /\ CurrentNode # last.elem) =>
        last.elem.tag = TagOf(last.op)

\* The item clicked last was that of a station, a sensor, a datalogger or a
\* stream, and its tab was filled without an exception.
NodeRead ==
    /\ last.op = "item_selected" /\ last.item # 0 /\ uncaught = ""
    /\ CurrentNode.tag \in {"station", "sensor", "datalogger", "stream"}

\* C22: once a node was selected and its tab filled, the commit of its kind
\* with the fields as they are leaves the node as it is.
C22_ReadThenCommit ==
    NodeRead => UpdateBody("update_" \o CurrentNode.tag, CurrentNode, form).node = CurrentNode

\* The attributes and the child elements the form of a commit method covers.
CoveredAttrs(op) == IF op = "update_station" THEN {"code", "name"}
                    ELSE IF op = "update_stream" THEN {"code"} ELSE {"name"}

CoveredTags(op) ==
    {c[1] : c \in Range(TextCalls(op))}
    \cup (IF op = "update_stream" THEN {"sampleRateNumerator", "sampleRateDenominator"} ELSE {})

\* The children of a node that the form of op does not cover, in order.
Uncovered(op, node) == SelectSeq(node.kids, LAMBDA kid : kid.tag \notin CoveredTags(op))

\* C23: after a commit the tree has the nodes it had, every node but the
\* active one is as it was, and the active node has its tag, its place, the
\* attributes the form does not cover and the children the form does not
\* cover, in their order, as before.
C23_CommitFrame ==
    (last.op \in UpdateOps /\ current_element.has) =>
        /\ Len(tree.nodes) = Len(last.before)
        /\ \A j \in 1..Len(tree.nodes) :
              (~current_element.attached \/ j # current_element.idx) =>
                  tree.nodes[j] = last.before[j]
        /\ CurrentNode.tag = last.elem.tag
        /\ CurrentNode.parent = last.elem.parent
        /\ \A a \in AttrNames \ CoveredAttrs(last.op) : CurrentNode.attr[a] = last.elem.attr[a]
        /\ Uncovered(last.op, CurrentNode) = Uncovered(last.op, last.elem)

\* update_stream has changed the children of a stream that has references to
\* its sensor and datalogger and a child the form does not cover.
C23_Witness ==
    /\ Committed /\ last.op = "update_stream"
    /\ current_element.attached
    /\ CurrentNode.kids # last.elem.kids
    /\ Uncovered(last.op, last.elem) # <<>>
    /\ last.elem.attr["sensor"] = "S1" /\ last.elem.attr["datalogger"] = "D1"

\* The load of the file picked fails: the dialog was cancelled, the file is
\* missing or not well-formed, its root is not the seiscomp element, or the
\* root has no Inventory child.
LoadFails(name) ==
    \/ name = ""
    \/ ~disk[name].wf
    \/ disk[name].root # "seiscomp"
    \/ ~disk[name].inv

\* C24: a load_xml that is cancelled or fails leaves the current file, the
\* tree, the current element and the Dirty flag as they were.
C24_FailedLoadUnchanged ==
    [][\A name \in FileNames \cup {""} :
          (LoadFails(name) /\ LoadXml(name)) =>
              UNCHANGED <<current_file, tree, current_element, unsaved_changes>>]_vars

\* A load has failed to parse its file in a Dirty session with a tree and a
\* current element.
C24_Witness ==
    /\ last.op = "load_xml" /\ ~last.ok /\ last.raised = "ParseError"
    /\ tree.loaded /\ current_element.has /\ unsaved_changes
    /\ current_file = "a.xml"

\* C25: after a closeEvent in a Dirty session that no exception has left, the
\* application has ended only if the reply was Discard or the reply was Save
\* and the save succeeded; after Cancel, or after Save with a failed save,
\* it still runs and the session is still Dirty.
C25_CloseKeepsChanges ==
    (last.op = "closeEvent" /\ last.dirty /\ uncaught = "") =>
        IF last.reply = "Discard" \/ (last.reply = "Save" /\ last.ok)
        THEN TRUE
        ELSE running /\ unsaved_changes

====
